---- MODULE Spec2Model ----
\* Model of gen_maze / draw_maze of src/__main__.py: the maze growth over a
\* width x height grid kept in flat lists indexed by t(x, y) = width*y + x.
\* Every call of the random module is an input chosen with \E.
EXTENDS Integers, Sequences, FiniteSets, TLC

\* ---------------------------------------------------------------- bounds
MaxWidth == 3
MaxHeight == 3
\* grids of more than MaxCells cells are left out
MaxCells == 9
\* grids of at most FullCells cells are run with every pattern of branch
\* weights and every min_length, larger ones with the default-like inputs
FullCells == 4
MaxMinLength == 2

\* ------------------------------------------------------ program constants
\* INF = 2 ** 62 in the source; here a value larger than every distance and
\* every threshold the bounded model can produce.
INF == 1000000
LEFT == 1
TOP == 2
RIGHT == 4
BOTTOM == 8

None == <<-1, -1>>
NoError == "none"

VARIABLES
    width, height, branch_dist, min_length,   \* arguments of gen_maze
    pc,                                       \* position in the program
    error,                                    \* uncaught exception, if any
    cells_visited, cell_remaining_sides, cell_distance, cell_state,
    cell_by_distance,                         \* heap of <<-d, <<x, y>>>>
    q,                                        \* deque of cells
    start, last_border_cell

vars == <<width, height, branch_dist, min_length, pc, error, cells_visited,
          cell_remaining_sides, cell_distance, cell_state, cell_by_distance,
          q, start, last_border_cell>>

args == <<width, height, branch_dist, min_length>>

\* ------------------------------------------------------- grid utilities
cell_count == width * height
last_x == width - 1
last_y == height - 1
Indices == 0 .. (cell_count - 1)
Cells == (0 .. last_x) \X (0 .. last_y)

t(x, y) == width * y + x

in_bounds(x, y) == 0 <= x /\ x < width /\ 0 <= y /\ y < height

is_border(x, y) == x = 0 \/ y = 0 \/ x = last_x \/ y = last_y

c_l(x, y) == <<x - 1, y>>
c_r(x, y) == <<x + 1, y>>
c_t(x, y) == <<x, y - 1>>
c_b(x, y) == <<x, y + 1>>

\* the four neighbour lookups in the order the growth loop tries them
Around(c) == <<c_l(c[1], c[2]), c_r(c[1], c[2]), c_t(c[1], c[2]), c_b(c[1], c[2])>>

\* ------------------------------------------------------------ the state
\* the lists and counters the closures of gen_maze share
Cur ==
    [cells_visited |-> cells_visited,
     cell_remaining_sides |-> cell_remaining_sides,
     cell_distance |-> cell_distance,
     cell_state |-> cell_state,
     cell_by_distance |-> cell_by_distance,
     q |-> q]

Store(S) ==
    /\ cells_visited' = S.cells_visited
    /\ cell_remaining_sides' = S.cell_remaining_sides
    /\ cell_distance' = S.cell_distance
    /\ cell_state' = S.cell_state
    /\ cell_by_distance' = S.cell_by_distance
    /\ q' = S.q

\* cell_remaining_sides = [4] * cell_count, then the border rows and
\* columns set to 3, then the four corners to 2 (later writes win)
InitRemainingSides ==
    LET rows == {t(x, 0) : x \in 0 .. last_x} \cup {t(x, height - 1) : x \in 0 .. last_x}
        cols == {t(0, y) : y \in 0 .. last_y} \cup {t(width - 1, y) : y \in 0 .. last_y}
        corners == {t(0, 0), t(width - 1, 0), t(0, height - 1), t(width - 1, height - 1)}
    IN [i \in Indices |->
            IF i \in corners THEN 2 ELSE IF i \in rows \cup cols THEN 3 ELSE 4]

is_visited(x, y, S) == S.cell_distance[t(x, y)] # INF

\* ---------------------------------------------------------- wall masks
HasBit(m, b) == (m \div b) % 2 = 1

\* cell_state[t(x, y)] |= bit
open_side(bit, x, y, S) ==
    [S EXCEPT !.cell_state[t(x, y)] = IF HasBit(@, bit) THEN @ ELSE @ + bit]

open_left(x, y, S) == open_side(LEFT, x, y, S)
open_top(x, y, S) == open_side(TOP, x, y, S)
open_right(x, y, S) == open_side(RIGHT, x, y, S)
open_bottom(x, y, S) == open_side(BOTTOM, x, y, S)

\* connect opening the wall of the first cell only
connect_oneway(x1, y1, x2, y2, S) ==
    IF x1 < x2 THEN open_right(x1, y1, S)
    ELSE IF x2 < x1 THEN open_left(x1, y1, S)
    ELSE IF y1 < y2 THEN open_bottom(x1, y1, S)
    ELSE IF y2 < y1 THEN open_top(x1, y1, S)
    ELSE S

connect(x1, y1, x2, y2, S) ==
    IF x1 < x2 THEN open_left(x2, y2, open_right(x1, y1, S))
    ELSE IF x2 < x1 THEN open_right(x2, y2, open_left(x1, y1, S))
    ELSE IF y1 < y2 THEN open_top(x2, y2, open_bottom(x1, y1, S))
    ELSE IF y2 < y1 THEN open_bottom(x2, y2, open_top(x1, y1, S))
    ELSE S

\* ------------------------------------------------------------ the heap
\* heapq orders the entries (-d, (x, y)) as Python tuples
EntryLess(a, b) ==
    \/ a[1] < b[1]
    \/ a[1] = b[1] /\ a[2][1] < b[2][1]
    \/ a[1] = b[1] /\ a[2][1] = b[2][1] /\ a[2][2] < b[2][2]

\* cell_by_distance[0]: the least entry
HeapTop(h) == CHOOSE e \in h : \A f \in h : f = e \/ EntryLess(e, f)

heappop(h) == h \ {HeapTop(h)}

heappush(h, e) == h \cup {e}

\* fallback_cell popping every entry it returns
RECURSIVE fallback_cell_greedy(_, _)
fallback_cell_greedy(h, rem) ==
    IF h = {} THEN [cell |-> None, heap |-> h]
    ELSE LET cell == HeapTop(h)[2]
             remaining_sides == rem[t(cell[1], cell[2])]
         IN IF remaining_sides >= 1 THEN [cell |-> cell, heap |-> heappop(h)]
            ELSE fallback_cell_greedy(heappop(h), rem)

\* returns the seed cell (None when the heap runs empty) and the heap left
RECURSIVE fallback_cell(_, _)
fallback_cell(h, rem) ==
    IF h = {} THEN [cell |-> None, heap |-> h]
    ELSE LET cell == HeapTop(h)[2]
             remaining_sides == rem[t(cell[1], cell[2])]
         IN IF remaining_sides > 1 THEN [cell |-> cell, heap |-> h]
            ELSE IF remaining_sides = 1 THEN [cell |-> cell, heap |-> heappop(h)]
            ELSE fallback_cell(heappop(h), rem)

\* ------------------------------------------------------------ visiting
\* set_visited leaving the counter alone
set_visited_nocount(x, y, d, S) ==
    LET near == {n \in {c_l(x, y), c_r(x, y), c_t(x, y), c_b(x, y)} : in_bounds(n[1], n[2])}
    IN [S EXCEPT
            !.cell_distance[t(x, y)] = d,
            !.cell_by_distance = heappush(@, <<0 - d, <<x, y>>>>),
            !.cell_remaining_sides =
                [i \in DOMAIN @ |-> @[i] - Cardinality({n \in near : t(n[1], n[2]) = i})]]

set_visited(x, y, d, S) ==
    LET near == {n \in {c_l(x, y), c_r(x, y), c_t(x, y), c_b(x, y)} : in_bounds(n[1], n[2])}
    IN [S EXCEPT
            !.cells_visited = @ + 1,
            !.cell_distance[t(x, y)] = d,
            !.cell_by_distance = heappush(@, <<0 - d, <<x, y>>>>),
            !.cell_remaining_sides =
                [i \in DOMAIN @ |-> @[i] - Cardinality({n \in near : t(n[1], n[2]) = i})]]

q_up(cell, d, S) ==
    set_visited(cell[1], cell[2], d, [S EXCEPT !.q = Append(@, cell)])

\* ------------------------------------------------------- random module
\* Only whether a weight is positive decides which branch counts
\* random.choices can return, so each weight is 0 or 1.
Weights == {0, 1}

RECURSIVE accumulate(_)
accumulate(w) ==
    IF Len(w) = 0 THEN <<>>
    ELSE LET head == accumulate(SubSeq(w, 1, Len(w) - 1))
         IN Append(head, (IF Len(head) = 0 THEN 0 ELSE head[Len(head)]) + w[Len(w)])

cumulative_brach_dist == accumulate(branch_dist)

\* cumulative_brach_dist[: n + 1]
cum_weights(n) ==
    SubSeq(cumulative_brach_dist, 1, IF n + 1 < 4 THEN n + 1 ELSE 4)

\* random.choices(list(range(n + 1)), cum_weights=...) raises ValueError when
\* the two lengths differ and when the total weight is not positive
choices_raises(n) ==
    \/ Len(cum_weights(n)) # n + 1
    \/ cum_weights(n)[Len(cum_weights(n))] <= 0

\* the values it can return: bisect(cum_weights, random() * total, 0, hi),
\* i.e. the indices of positive weight
choices_results(n) ==
    LET cw == cum_weights(n)
    IN IF choices_raises(n) THEN {}
       ELSE {i \in 0 .. n : cw[i + 1] > (IF i = 0 THEN 0 ELSE cw[i])}

\* random.sample(population, k): the k-element lists without repetition
sample(population, k) ==
    {s \in [1 .. k -> 1 .. Len(population)] :
        \A i, j \in 1 .. k : i # j => s[i] # s[j]}

Pick(population, s) == [i \in DOMAIN s |-> population[s[i]]]

\* ------------------------------------------------------ growth helpers
\* the enumeration without the not is_visited test
possible_branches_all(cc, S) ==
    LET Free(n) == in_bounds(n[1], n[2])
    IN SelectSeq(Around(cc), Free)

possible_branches(cc, S) ==
    LET Free(n) == in_bounds(n[1], n[2]) /\ ~is_visited(n[1], n[2], S)
    IN SelectSeq(Around(cc), Free)

\* for n in selection: connect(*cc, *n); q_up(n, d + 1)
RECURSIVE branch_into(_, _, _, _)
branch_into(selection, cc, d, S) ==
    IF selection = <<>> THEN S
    ELSE LET n == Head(selection)
         IN branch_into(Tail(selection), cc, d,
                        q_up(n, d + 1, connect(cc[1], cc[2], n[1], n[2], S)))

\* the loop test leaving one cell early
loop_test_early(visited) == IF visited + 1 < cell_count THEN "grow" ELSE "select_exit"

\* while cells_visited < cell_count
loop_test(visited) == IF visited < cell_count THEN "grow" ELSE "select_exit"

Raise(e) ==
    /\ error' = e
    /\ UNCHANGED <<pc, cells_visited, cell_remaining_sides, cell_distance,
                   cell_state, cell_by_distance, q, start, last_border_cell>>

\* ----------------------------------------------------------------- Init
MinLengths == (-1) .. MaxMinLength

Grids == {g \in (1 .. MaxWidth) \X (1 .. MaxHeight) : g[1] * g[2] <= MaxCells}

\* the command line's defaults: four positive weights, --min-length -1
Init ==
    /\ \E g \in Grids : width = g[1] /\ height = g[2]
    /\ IF width * height <= FullCells
       THEN branch_dist \in [1 .. 4 -> Weights] /\ min_length \in MinLengths
       ELSE branch_dist = [i \in 1 .. 4 |-> 1] /\ min_length = -1
    /\ pc = "pick_start"
    /\ error = NoError
    /\ cells_visited = 0
    /\ cell_remaining_sides = InitRemainingSides
    /\ cell_distance = [i \in Indices |-> INF]
    /\ cell_state = [i \in Indices |-> 0]
    /\ cell_by_distance = {}
    /\ q = <<>>
    /\ start = None
    /\ last_border_cell = None

\* -------------------------------------------------------------- actions
\* open the outer wall of the start cell, then q_up(start, 0)
StartAt(s, bit) ==
    IF t(s[1], s[2]) \notin Indices
    THEN Raise("IndexError")
    ELSE LET S == q_up(s, 0, open_side(bit, s[1], s[2], Cur))
         IN /\ Store(S)
            /\ start' = s
            /\ pc' = loop_test(S.cells_visited)
            /\ UNCHANGED <<error, last_border_cell>>

PickStart ==
    /\ pc = "pick_start"
    /\ error = NoError
    /\ \E horizontal \in BOOLEAN, near \in BOOLEAN :
        IF horizontal
        THEN \E x \in 0 .. width :
                IF near THEN StartAt(<<x, 0>>, TOP)
                ELSE StartAt(<<x, height - 1>>, BOTTOM)
        ELSE IF height - 1 < 1
             THEN Raise("ValueError")
             ELSE \E y \in 1 .. (height - 1) :
                    IF near THEN StartAt(<<0, y>>, LEFT)
                    ELSE StartAt(<<width - 1, y>>, RIGHT)
    /\ UNCHANGED args

\* one iteration of: while cells_visited < cell_count
Grow ==
    /\ pc = "grow"
    /\ error = NoError
    /\ LET can_terminate == q # <<>>
           fb == fallback_cell(cell_by_distance, cell_remaining_sides)
           S0 == IF can_terminate THEN Cur
                 ELSE [Cur EXCEPT !.cell_by_distance = fb.heap, !.q = <<fb.cell>>]
           cc == Head(S0.q)
       IN IF cc = None
          THEN Raise("TypeError")
          ELSE LET S1 == [S0 EXCEPT !.q = Tail(@)]
                   d == S1.cell_distance[t(cc[1], cc[2])]
                   pb == possible_branches(cc, S1)
               IN IF choices_raises(Len(pb))
                  THEN Raise("ValueError")
                  ELSE \E drawn \in choices_results(Len(pb)) :
                        LET branch_count == IF ~can_terminate /\ drawn = 0 THEN 1 ELSE drawn
                        IN IF branch_count > Len(pb)
                           THEN Raise("ValueError")
                           ELSE \E s \in sample(pb, branch_count) :
                                   LET S2 == branch_into(Pick(pb, s), cc, d, S1)
                                   IN /\ Store(S2)
                                      /\ pc' = loop_test(S2.cells_visited)
                                      /\ UNCHANGED <<error, start, last_border_cell>>
    /\ UNCHANGED args

min_exit_distance == IF min_length > 0 THEN min_length ELSE IF width < height THEN width ELSE height

\* the border cells random.choice picks the exit from
ExitCandidates ==
    {c \in Cells : is_border(c[1], c[2]) /\ cell_distance[t(c[1], c[2])] > min_exit_distance}

open_exit(c, S) ==
    IF c[1] = 0 THEN open_left(c[1], c[2], S)
    ELSE IF c[2] = 0 THEN open_top(c[1], c[2], S)
    ELSE IF c[1] = last_x THEN open_right(c[1], c[2], S)
    ELSE IF c[2] = last_y THEN open_bottom(c[1], c[2], S)
    ELSE S

\* exit selection whose except branch falls through to the return
SelectExit_fallthrough ==
    /\ pc = "select_exit"
    /\ error = NoError
    /\ IF ExitCandidates = {}
       THEN /\ pc' = "returned"
            /\ UNCHANGED <<error, cells_visited, cell_remaining_sides, cell_distance,
                           cell_state, cell_by_distance, q, start, last_border_cell>>
       ELSE \E c \in ExitCandidates :
               /\ Store(open_exit(c, Cur))
               /\ last_border_cell' = c
               /\ pc' = "returned"
               /\ UNCHANGED <<error, start>>
    /\ UNCHANGED args

\* random.choice of an empty list raises IndexError: print and exit()
SelectExit ==
    /\ pc = "select_exit"
    /\ error = NoError
    /\ IF ExitCandidates = {}
       THEN /\ pc' = "failed"
            /\ UNCHANGED <<error, cells_visited, cell_remaining_sides, cell_distance,
                           cell_state, cell_by_distance, q, start, last_border_cell>>
       ELSE \E c \in ExitCandidates :
               /\ Store(open_exit(c, Cur))
               /\ last_border_cell' = c
               /\ pc' = "returned"
               /\ UNCHANGED <<error, start>>
    /\ UNCHANGED args

\* draw_maze(maze, ...): bitmaps holds a tile for each of the masks 1..15
Draw ==
    /\ pc = "returned"
    /\ error = NoError
    /\ IF \E i \in Indices : cell_state[i] \notin 1 .. 15
       THEN Raise("KeyError")
       ELSE /\ pc' = "drawn"
            /\ UNCHANGED <<error, cells_visited, cell_remaining_sides, cell_distance,
                           cell_state, cell_by_distance, q, start, last_border_cell>>
    /\ UNCHANGED args

Next == PickStart \/ Grow \/ SelectExit \/ Draw

Spec == Init /\ [][Next]_vars

TypeOK ==
    /\ pc \in {"pick_start", "grow", "select_exit", "failed", "returned", "drawn"}
    /\ error \in {NoError, "IndexError", "ValueError", "TypeError", "KeyError"}
    /\ cells_visited \in 0 .. cell_count
    /\ \A i \in Indices : cell_state[i] \in 0 .. 15

\* ====================================================== vocabulary of the
\* properties (no code is modelled below this line)
Sides == {LEFT, TOP, RIGHT, BOTTOM}

Toward(c, side) ==
    IF side = LEFT THEN c_l(c[1], c[2])
    ELSE IF side = TOP THEN c_t(c[1], c[2])
    ELSE IF side = RIGHT THEN c_r(c[1], c[2])
    ELSE c_b(c[1], c[2])

Opposite(side) ==
    IF side = LEFT THEN RIGHT ELSE IF side = RIGHT THEN LEFT
    ELSE IF side = TOP THEN BOTTOM ELSE TOP

Mask(c) == cell_state[t(c[1], c[2])]
Distance(c) == cell_distance[t(c[1], c[2])]
Visited(c) == Distance(c) # INF

GridNeighbours(c) == {n \in Cells : \E side \in Sides : n = Toward(c, side)}
UnvisitedNeighbours(c) == {n \in GridNeighbours(c) : ~Visited(n)}

\* a passage between two cells of the grid: the wall is open on both sides
Passage(a, b) ==
    \E side \in Sides :
        /\ b \in Cells
        /\ b = Toward(a, side)
        /\ HasBit(Mask(a), side)
        /\ HasBit(Mask(b), Opposite(side))

InteriorEdges == {{a, Toward(a, side)} : <<a, side>> \in {w \in Cells \X Sides : Passage(w[1], Toward(w[1], w[2]))}}

\* open walls that face outside the grid, as <<cell, side>>
OuterOpen ==
    {w \in Cells \X Sides :
        /\ HasBit(Mask(w[1]), w[2])
        /\ ~in_bounds(Toward(w[1], w[2])[1], Toward(w[1], w[2])[2])}

AllOpen == {w \in Cells \X Sides : HasBit(Mask(w[1]), w[2])}

RECURSIVE ReachFrom(_)
ReachFrom(seen) ==
    LET more == {b \in Cells : \E a \in seen : Passage(a, b)} \ seen
    IN IF more = {} THEN seen ELSE ReachFrom(seen \cup more)

StartInGrid == start # None /\ in_bounds(start[1], start[2])

GrowthDone == pc \in {"select_exit", "failed", "returned", "drawn"}

\* ------------------------------------------------------------------ C1
\* C1: when the growth loop completes, the open interior walls form a
\* spanning tree of the cells: cell_count - 1 edges, every cell reachable
\* from the start cell.
C1_SpanningTree ==
    pc = "select_exit" =>
        /\ Cardinality(InteriorEdges) = cell_count - 1
        /\ StartInGrid
        /\ ReachFrom({start}) = Cells

\* sanity: the same with the start draw inside the grid
C1_SpanningTreeInGrid ==
    (pc = "select_exit" /\ StartInGrid) =>
        /\ Cardinality(InteriorEdges) = cell_count - 1
        /\ ReachFrom({start}) = Cells

\* ------------------------------------------------------------------ C2
\* C2: whenever the growth loop exits, every cell has a distance other
\* than the sentinel INF.
C2_FullCoverage ==
    pc = "select_exit" => \A i \in Indices : cell_distance[i] # INF

C2_Witness ==
    /\ pc = "select_exit"
    /\ width = 3 /\ height = 3
    /\ \E i \in Indices : cell_distance[i] >= 4

\* ------------------------------------------------------------------ C3
\* C3: the start cell is a border cell of the grid, the only cell at
\* distance 0, and right after start selection the only open wall of the
\* grid is the start cell's wall facing outside.
JustStarted == pc # "pick_start" /\ cells_visited = 1 /\ q = <<start>>

C3_StartCell ==
    start # None =>
        /\ StartInGrid
        /\ is_border(start[1], start[2])
        /\ {c \in Cells : Distance(c) = 0} = {start}
        /\ JustStarted =>
              /\ Cardinality(AllOpen) = 1
              /\ \E side \in Sides : AllOpen = {<<start, side>>} /\ OuterOpen = AllOpen

C3_StartCellInGrid == StartInGrid => C3_StartCell
\* ------------------------------------------------------------------ C4
\* C4: a returned maze has exactly two open walls facing outside: the
\* start cell's and the exit cell's, the exit being another border cell
\* whose distance exceeds the threshold.
C4_TwoOuterWalls ==
    pc = "returned" =>
        /\ StartInGrid
        /\ last_border_cell \in Cells
        /\ last_border_cell # start
        /\ is_border(last_border_cell[1], last_border_cell[2])
        /\ Cardinality(OuterOpen) = 2
        /\ \E s1, s2 \in Sides : OuterOpen = {<<start, s1>>, <<last_border_cell, s2>>}
        /\ Distance(last_border_cell) >
              (IF min_length > 0 THEN min_length
               ELSE IF width < height THEN width ELSE height)

C4_TwoOuterWallsInGrid == StartInGrid => C4_TwoOuterWalls

C7_GrowthNeverAborts == pc = "grow" => error = NoError

\* ------------------------------------------------------------------ C8
\* C8: on a strip a start is selected and the growth loop runs to the
\* end without aborting.
C8_StripCompletes ==
    (width = 1 \/ height = 1) => (pc \in {"pick_start", "grow"} => error = NoError)

\* ------------------------------------------------------------------ C9
\* C9: at the start of every iteration cell_remaining_sides of a cell is
\* the number of its unvisited neighbours in the grid.
C9_RemainingSides ==
    (pc = "grow" /\ error = NoError) =>
        \A c \in Cells :
            cell_remaining_sides[t(c[1], c[2])] = Cardinality(UnvisitedNeighbours(c))

\* ----------------------------------------------------------------- C10
\* C10: with the frontier empty and cells left, fallback_cell returns a
\* visited cell that has an unvisited neighbour.
C10_FallbackLive ==
    (pc = "grow" /\ error = NoError /\ q = <<>>) =>
        LET cell == fallback_cell(cell_by_distance, cell_remaining_sides).cell
        IN /\ cell \in Cells
           /\ Visited(cell)
           /\ UnvisitedNeighbours(cell) # {}

\* the same statements on the grids the initialisation is right for and
\* with the start inside the grid
Sound == StartInGrid /\ width >= 2 /\ height >= 2

C7_Sound == (Sound /\ branch_dist[1] > 0) => C7_GrowthNeverAborts
C9_Sound == Sound => C9_RemainingSides
C10_Sound == Sound => C10_FallbackLive
\* ------------------------------------------- vocabulary of an iteration
Iterating == pc = "grow" /\ error = NoError
Restarting == Iterating /\ q = <<>>

\* what fallback_cell would return in this state
Seed == fallback_cell(cell_by_distance, cell_remaining_sides)

\* the cell the next iteration expands
Current == IF q # <<>> THEN Head(q) ELSE Seed.cell

RemainingSides(c) == cell_remaining_sides[t(c[1], c[2])]

Live(c) == c \in Cells /\ Visited(c) /\ UnvisitedNeighbours(c) # {}

\* the cells a step visits
NewlyVisited ==
    {c \in Cells : cell_distance[t(c[1], c[2])] = INF /\ cell_distance'[t(c[1], c[2])] # INF}

\* the neighbours the next iteration enumerates
Enumerated ==
    LET pb == possible_branches(Current, Cur) IN {pb[i] : i \in DOMAIN pb}

\* ----------------------------------------------------------------- C11
\* C11: at a restart the seed is a visited cell with an unvisited
\* neighbour and no such cell is farther from the start; the entries
\* dropped on the way have remainingSides 0, the seed's entry goes when its
\* remainingSides is 1 and stays when it is more.
C11_FarthestSeed ==
    Restarting =>
        /\ Live(Seed.cell)
        /\ \A c \in Cells : Live(c) => Distance(c) <= Distance(Seed.cell)
        /\ \A e \in cell_by_distance \ Seed.heap :
              \/ e[2] # Seed.cell /\ RemainingSides(e[2]) = 0
              \/ e[2] = Seed.cell /\ RemainingSides(e[2]) = 1
        /\ RemainingSides(Seed.cell) > 1 =>
              \E e \in Seed.heap : e[2] = Seed.cell

C11_Sound == Sound => C11_FarthestSeed

\* ----------------------------------------------------------------- C12
\* C12: a distance is written once, as the distance of the expanded cell
\* plus one, and kept; so every visited cell but the start has exactly one
\* open wall to a cell one step nearer, and its other open interior walls
\* lead to cells one step farther.
OpenInterior(c) == {side \in Sides : HasBit(Mask(c), side) /\ Toward(c, side) \in Cells}

C12_ParentEdge ==
    \A c \in Cells :
        (Visited(c) /\ c # start) =>
            /\ Cardinality({side \in OpenInterior(c) :
                    Distance(Toward(c, side)) = Distance(c) - 1}) = 1
            /\ \A side \in OpenInterior(c) :
                    \/ Distance(Toward(c, side)) = Distance(c) - 1
                    \/ Distance(Toward(c, side)) = Distance(c) + 1

C12_WrittenOnce ==
    /\ \A i \in Indices : cell_distance[i] # INF => cell_distance'[i] = cell_distance[i]
    /\ Iterating =>
          \A c \in NewlyVisited :
              /\ Current \in Cells
              /\ cell_distance'[t(c[1], c[2])] = Distance(Current) + 1

C12_Distances == []C12_ParentEdge /\ [][C12_WrittenOnce]_vars

C12_Sound == [](StartInGrid => C12_ParentEdge) /\ [][StartInGrid => C12_WrittenOnce]_vars

\* ----------------------------------------------------------------- C13
\* C13: a wall between two cells of the grid is open on both sides or on
\* none; no step clears a bit; a growth step changes the masks of the
\* expanded cell and of the cells it visits only.
C13_Symmetric ==
    \A c \in Cells : \A side \in Sides :
        Toward(c, side) \in Cells =>
            (HasBit(Mask(c), side) <=> HasBit(Mask(Toward(c, side)), Opposite(side)))

C13_Frame ==
    /\ \A i \in Indices : \A side \in Sides :
          HasBit(cell_state[i], side) => HasBit(cell_state'[i], side)
    /\ Iterating =>
          \A c \in Cells :
              cell_state'[t(c[1], c[2])] # cell_state[t(c[1], c[2])] =>
                  c = Current \/ c \in NewlyVisited

C13_Walls == []C13_Symmetric /\ [][C13_Frame]_vars

C13_Sound == [](StartInGrid => C13_Symmetric) /\ [][StartInGrid => C13_Frame]_vars

\* ----------------------------------------------------------------- C14
\* C14: in every iteration the branch draw succeeds, the cells opened are
\* distinct enumerated neighbours (so at most n), and a restarting
\* iteration opens at least one.
C14_Step ==
    Iterating =>
        /\ error' = NoError
        /\ NewlyVisited \subseteq Enumerated
        /\ Cardinality(NewlyVisited) <= Cardinality(Enumerated)
        /\ q = <<>> => Cardinality(NewlyVisited) >= 1
        /\ cells_visited' = cells_visited + Cardinality(NewlyVisited)

C14_BranchCount == [][C14_Step]_vars

C14_Sound == [][(Sound /\ branch_dist[1] > 0) => C14_Step]_vars
\* ----------------------------------------------------------------- C15
\* C15: a cell is visited at most once: a step writes distances only into
\* slots that held INF, one per cell it appends to the frontier, the
\* appended cells are distinct, and cells_visited counts the slots holding
\* a distance.
SetIndices == {i \in Indices : cell_distance[i] # INF}

NewIndices == {i \in Indices : cell_distance[i] = INF /\ cell_distance'[i] # INF}

\* the part of q' behind what the step left of q
Kept == IF q = <<>> THEN 0 ELSE Len(q) - 1
Appended == SubSeq(q', Kept + 1, Len(q'))

C15_Counted ==
    /\ cells_visited = Cardinality(SetIndices)
    /\ \A i, j \in DOMAIN q : i # j => q[i] # q[j]
    /\ \A i \in DOMAIN q : t(q[i][1], q[i][2]) \in SetIndices

C15_VisitStep ==
    /\ \A i \in SetIndices : cell_distance'[i] = cell_distance[i]
    /\ cells_visited' = cells_visited + Cardinality(NewIndices)
    /\ (pc \in {"pick_start", "grow"} /\ error' = NoError) =>
          /\ Len(q') >= Kept
          /\ \A i \in 1 .. Kept : q'[i] = q[i + 1]
          /\ Len(Appended) = Cardinality(NewIndices)
          /\ {t(Appended[i][1], Appended[i][2]) : i \in DOMAIN Appended} = NewIndices

C16_AtMostThree ==
    (Iterating /\ Sound /\ is_border(start[1], start[2])) =>
        /\ Cardinality(Enumerated) <= 3
        /\ Len(cum_weights(Cardinality(Enumerated))) = Cardinality(Enumerated) + 1

C16_Witness ==
    /\ Iterating /\ Sound
    /\ Current = <<1, 1>>
    /\ width = 3 /\ height = 3
    /\ Cardinality(Enumerated) = 3

\* ----------------------------------------------------------------- C17
\* C17: on a grid of width, height >= 2 with the start in it, every
\* visited cell with an unvisited neighbour has an entry in the heap at the
\* start of an iteration, and a step removes an entry only of a cell all
\* of whose neighbours are visited after the step.
HasEntry(c) == \E e \in cell_by_distance : e[2] = c

C17_SeedsKept ==
    (Iterating /\ Sound) => \A c \in Cells : Live(c) => HasEntry(c)

C17_Removal ==
    Sound =>
        \A e \in cell_by_distance \ cell_by_distance' :
            \A n \in GridNeighbours(e[2]) : cell_distance'[t(n[1], n[2])] # INF

C17_LazyDeletion == []C17_SeedsKept /\ [][C17_Removal]_vars

\* an entry was removed from the heap and seeds are left
C17_Witness ==
    /\ Iterating /\ Sound
    /\ \E c \in Cells : Visited(c) /\ ~HasEntry(c)
    /\ \E c \in Cells : Live(c)

\* ----------------------------------------------------------------- C18
\* C18: in a returned maze no mask is 0, so draw_maze finds a tile for
\* each of the width * height masks.
C18_NoEmptyMask ==
    /\ pc \in {"returned", "drawn"} =>
          /\ DOMAIN cell_state = 0 .. (width * height - 1)
          /\ \A i \in Indices : cell_state[i] \in 1 .. 15
    /\ error # "KeyError"

C18_Witness ==
    /\ pc = "drawn"
    /\ cell_count = 9
    /\ \E i \in Indices : cell_state[i] = 15
====
